---- MODULE Spec2Model ----
(***************************************************************************)
(* Model of fedml.workflow.workflow.Workflow: the job registry (add_job),  *)
(* the one-time metadata computation (_compute_workflow_metadata, with the *)
(* layered toposort it calls) and the coordinator (run, _execute_and_wait, *)
(* _kill_jobs) driving externally executed jobs batch by batch.            *)
(***************************************************************************)
EXTENDS Integers, Sequences, FiniteSets, TLC

\* ------------------------------------------------------------- bounds ----
MaxEdges == 2       \* most dependencies the registry holds in total while add_job is called
MaxPass == 2        \* passes of run()'s while loop that are followed

\* ------------------------------------------------------ jobs (external) --
\* The Job objects that exist, each with its name: objects 1 and 4 are two
\* distinct objects that carry the same name.
JobObjects == <<"A", "B", "C", "A">>

Jobs == DOMAIN JobObjects

\* job.name
NameOf(j) == JobObjects[j]

Names == {NameOf(j) : j \in Jobs}

\* An argument that is no instance of Job.
NonJob == 0

Objects == Jobs \cup {NonJob}

\* isinstance(x, Job)
IsJob(x) == x \in Jobs

\* JobStatus
NOT_STARTED == "NOT_STARTED"
RUNNING == "RUNNING"
FINISHED == "FINISHED"
FAILED == "FAILED"
UNDETERMINED == "UNDETERMINED"

JobStatus == {NOT_STARTED, RUNNING, FINISHED, FAILED, UNDETERMINED}

Terminal == {FINISHED, FAILED, UNDETERMINED}

\* The status a job has after job.run(): not-started -> running; a job that
\* is already running or terminal keeps its status.
StatusAfterRun(st) == IF st = NOT_STARTED THEN RUNNING ELSE st

\* ------------------------------------------------------------ values -----
\* Node = namedtuple('Node', ['name', 'job']): equal iff both fields are.
Node(n, j) == [name |-> n, job |-> j]

\* self._metadata = None
None == [kind |-> "None"]

\* Metadata = namedtuple('Metadata', ['nodes', 'topological_order', 'graph'])
Metadata(ns, order, g) ==
  [kind |-> "Metadata", nodes |-> ns, topological_order |-> order, graph |-> g]

\* A value a caller may assign to the metadata property: a Metadata of its own.
UserMetadata == Metadata(<<>>, <<>>, <<>>)

\* bool(value): None is falsy, a Metadata (a 3-tuple) is truthy.
Truthy(m) == m.kind # "None"

\* Lists over a set of objects. Only the set of a dependency list's elements
\* reaches the graph, so lists are enumerated in increasing order without
\* repetition.
ListsOver(S) ==
  {s \in UNION {[1..k -> S] : k \in 0..Cardinality(S)} :
     \A i \in 1..(Len(s) - 1) : s[i] < s[i + 1]}

\* The dependencies argument of add_job: a list of at most MaxEdges jobs, a
\* list that holds an object that is no Job, or left out (None).
DepArgs ==
  {[given |-> TRUE, list |-> s] : s \in {l \in ListsOver(Jobs) : Len(l) <= MaxEdges}}
    \cup {[given |-> TRUE, list |-> <<NonJob>>], [given |-> FALSE, list |-> <<>>]}

Range(s) == {s[i] : i \in DOMAIN s}

\* ---------------------------------------------------------- toposort -----
\* toposort.toposort(data), the layered topological sort called at line 149.
RECURSIVE toposortLayers(_, _)
toposortLayers(data, out) ==
  LET ordered == {item \in DOMAIN data : data[item] = {}}
  IN IF ordered = {}
       THEN [batches |-> out, remaining |-> DOMAIN data]
       ELSE toposortLayers(
              [item \in (DOMAIN data) \ ordered |-> data[item] \ ordered],
              Append(out, ordered))

\* toposort without the step that gives items occurring only as dependencies
\* an empty dependency set of their own.
toposortKeysOnly(graph) ==
  IF DOMAIN graph = {}
    THEN [batches |-> <<>>, circular |-> FALSE]
    ELSE LET d0 == [item \in DOMAIN graph |-> graph[item] \ {item}]
             r == toposortLayers(d0, <<>>)
         IN [batches |-> r.batches, circular |-> r.remaining # {}]

\* Self-dependencies are discarded, items that occur only as dependencies get
\* an empty dependency set, then layers are extracted; items left over when no
\* layer can be extracted make a CircularDependencyError.
toposort(graph) ==
  IF DOMAIN graph = {}
    THEN [batches |-> <<>>, circular |-> FALSE]
    ELSE LET d0 == [item \in DOMAIN graph |-> graph[item] \ {item}]
             extra == (UNION {d0[i] : i \in DOMAIN d0}) \ (DOMAIN d0)
             d1 == [item \in (DOMAIN d0) \cup extra |->
                      IF item \in DOMAIN d0 THEN d0[item] ELSE {}]
             r == toposortLayers(d1, <<>>)
         IN [batches |-> r.batches, circular |-> r.remaining # {}]

\* ------------------------------------------- _compute_workflow_metadata --
\* Lines 140-145 with the edge stored the wrong way round:
\* graph[dependency_node].add(node).
BuildGraphReversed(reg) ==
  LET edges == {p \in (DOMAIN reg) \X Jobs : p[2] \in Range(reg[p[1]].dependencies)}
      keys == {Node(NameOf(p[2]), p[2]) : p \in edges}
  IN [k \in keys |->
        {Node(p[1], reg[p[1]].job) : p \in {q \in edges : q[2] = k.job}}]

\* graph = defaultdict(set); graph[node].add(dependency_node) for every
\* dependency of every registered job: a key exists only for a job that has
\* at least one dependency.
BuildGraph(reg) ==
  LET keys == {Node(n, reg[n].job) : n \in {m \in DOMAIN reg : reg[m].dependencies # <<>>}}
  IN [k \in keys |->
        {Node(NameOf(d), d) : d \in Range(reg[k.name].dependencies)}]

\* node_dict = dict() is only ever read with get(): it stays empty, and
\* nodes = tuple(node_dict.values()) is the empty tuple.
NodeDictValues(reg) == <<>>

\* The outcome of lines 137-149 on a registry: the Metadata, or the
\* CircularDependencyError raised while tuple() drains the generator, in
\* which case no Metadata is built.
ComputeMetadata(reg) ==
  LET graph == BuildGraph(reg)
      ts == toposort(graph)
  IN [circular |-> ts.circular,
      value |-> IF ts.circular THEN None
                ELSE Metadata(NodeDictValues(reg), ts.batches, graph)]

\* Line 134: if self.metadata (the getter gives _metadata when truthy).
MetadataExistsNever(m) == FALSE

MetadataExists(m) == Truthy(m)

\* Line 38 of the setter: if not self._metadata.
SetterAcceptsAlways(m) == TRUE

SetterAccepts(m) == ~Truthy(m)

\* ------------------------------------------------------------ add_job ----
\* Line 70: job.name in self.jobs.
AlreadyRegisteredNever(name, reg) == FALSE

AlreadyRegistered(name, reg) == name \in DOMAIN reg

\* Line 73: self.jobs[job.name] = {'job': job, 'dependencies': dependencies}
RECURSIVE SumLen(_, _)
SumLen(reg, ns) ==
  IF ns = {} THEN 0
  ELSE LET n == CHOOSE x \in ns : TRUE
       IN Len(reg[n].dependencies) + SumLen(reg, ns \ {n})

\* The dependencies a registry holds in total.
Edges(reg) == SumLen(reg, DOMAIN reg)

Register(reg, job, deps) ==
  [n \in (DOMAIN reg) \cup {NameOf(job)} |->
     IF n = NameOf(job) THEN [job |-> job, dependencies |-> deps] ELSE reg[n]]

\* ------------------------------------------------------ run and polling --
\* Line 82: while first_run or self.loop.
LoopConditionFirstOnly(first, lp) == first

LoopCondition(first, lp) == first \/ lp

\* Line 85: jobs = [node.job for node in nodes].
JobsOf(nodes) == {nd.job : nd \in nodes}

\* Lines 96-97 left after the first job.run().
StartLoopDoneAfterFirst(remaining, j) == TRUE

\* Lines 96-97: the for loop over jobs ends after its last job.
StartLoopDone(remaining, j) == remaining = {j}

\* Line 106: status != JobStatus.FINISHED.
NotFinished(st) == st # FINISHED

\* Line 109 with the test widened to every unfinished status.
IsErroredUnfinished(st) == st # FINISHED

\* Line 109 with the UNDETERMINED alternative left out.
IsErroredFailedOnly(st) == st = FAILED

\* Line 109: status == FAILED or status == UNDETERMINED.
IsErrored(st) == st = FAILED \/ st = UNDETERMINED

\* Lines 113-121 returning as soon as no job errored.
PassOutcomeNoError(completed, errored) ==
  IF ~errored THEN "return" ELSE "raise"

\* Lines 113-121 without the abort: an errored pass sleeps and polls again.
PassOutcomeNoRaise(completed, errored) ==
  IF completed THEN "return" ELSE "sleep"

\* Lines 113-121, the end of one poll pass: return True, kill and raise, or
\* sleep and poll again.
PassOutcome(completed, errored) ==
  IF completed THEN "return"
  ELSE IF errored THEN "raise"
  ELSE "sleep"

\* Lines 130-131 killing only the jobs that are not finished.
KillTargetsUnfinished(batchJobs, st) == {j \in batchJobs : st[j] # FINISHED}

\* Lines 130-131 killing every job that was started, of whatever batch.
KillTargetsAllStarted(batchJobs, st) == {j \in DOMAIN st : st[j] # NOT_STARTED}

\* Lines 130-131: for job in jobs: job.kill().
KillTargets(batchJobs, st) == batchJobs

\* -------------------------------------------------------------- state ----
VARIABLES
  jobs,           \* self.jobs: name -> [job, dependencies]
  metadata,       \* self._metadata
  loop,           \* self._loop
  status,         \* what job.status() returns now, per Job object
  pc,             \* where run() stands: "idle" when no run() is in progress
  first_run,      \* run()'s local first_run
  bi,             \* index of the for loop over metadata.topological_order
  batch,          \* _execute_and_wait's jobs
  todo,           \* jobs the current for loop over jobs has still to visit
  all_completed,  \* _execute_and_wait's locals of the current poll pass
  any_errored,
  errored_jobs,
  passNo,         \* passes of the while loop begun by the current run()
  runCalls,       \* per Job object: job.run() calls made by the workflow
  statusCalls,    \* Job objects job.status() was called on
  killCalls,      \* Job objects job.kill() was called on
  observed,       \* per Job object: the status job.status() returned in the current poll pass
                  \* of its batch (the last one, once the batch is left)
  raised,         \* the batch failure raised by run(): its batch and the names it carries
  lastCall        \* the last call of the public surface and how it ended

vars ==
  <<jobs, metadata, loop, status, pc, first_run, bi, batch, todo, all_completed,
    any_errored, errored_jobs, passNo, runCalls, statusCalls, killCalls, observed,
    raised, lastCall>>

workflowVars == <<jobs, metadata, loop>>
localVars == <<first_run, bi, batch, todo, all_completed, any_errored, errored_jobs, passNo>>
callVars == <<runCalls, statusCalls, killCalls>>

NotObserved == "NOT_OBSERVED"

NotRaised == [raised |-> FALSE, index |-> 0, batch |-> {}, names |-> <<>>]

\* A call of the public surface: the operation, the name of the job handed to
\* add_job ("" elsewhere) and how the call ended.
Call(op, name, result) == [op |-> op, name |-> name, result |-> result]

\* Workflow.__init__ (lines 22-26), with every job not started and no call made.
InitWith(reg, lp) ==
  /\ jobs = reg
  /\ metadata = None
  /\ loop = lp
  /\ status = [j \in Jobs |-> NOT_STARTED]
  /\ pc = "idle"
  /\ first_run = FALSE
  /\ bi = 0
  /\ batch = {}
  /\ todo = {}
  /\ all_completed = TRUE
  /\ any_errored = FALSE
  /\ errored_jobs = <<>>
  /\ passNo = 0
  /\ runCalls = [j \in Jobs |-> 0]
  /\ statusCalls = {}
  /\ killCalls = {}
  /\ observed = [j \in Jobs |-> NotObserved]
  /\ raised = NotRaised
  /\ lastCall = Call("__init__", "", "ok")

Init == \E lp \in BOOLEAN : InitWith(<<>>, lp)

\* ------------------------------------------------------------ actions ----
\* add_job (lines 47-73).
add_job(job, deps) ==
  /\ pc = "idle"
  /\ Edges(jobs) + Len(deps.list) <= MaxEdges
  /\ UNCHANGED <<metadata, loop, status, pc, localVars, callVars, observed, raised>>
  /\ IF ~IsJob(job)
       THEN /\ lastCall' = Call("add_job", "", "TypeError: job")
            /\ UNCHANGED jobs
       ELSE LET dependencies == IF deps.given THEN deps.list ELSE <<>>
            IN IF ~(\A dep \in Range(dependencies) : IsJob(dep))
                 THEN /\ lastCall' = Call("add_job", NameOf(job), "TypeError: dependencies")
                      /\ UNCHANGED jobs
                 ELSE IF AlreadyRegistered(NameOf(job), jobs)
                        THEN /\ lastCall' = Call("add_job", NameOf(job), "ValueError: already exists")
                             /\ UNCHANGED jobs
                        ELSE /\ jobs' = Register(jobs, job, dependencies)
                             /\ lastCall' = Call("add_job", NameOf(job), "ok")

\* The metadata setter (lines 36-41).
set_metadata(value) ==
  /\ pc = "idle"
  /\ UNCHANGED <<jobs, loop, status, pc, localVars, callVars, observed, raised>>
  /\ IF SetterAccepts(metadata)
       THEN /\ metadata' = value
            /\ lastCall' = Call("metadata.setter", "", "ok")
       ELSE /\ lastCall' = Call("metadata.setter", "", "ValueError: cannot be modified")
            /\ UNCHANGED metadata

\* Line 30 raising when no metadata is stored.
GetterResultRaises(m) == IF Truthy(m) THEN "returns Metadata" ELSE "AttributeError"

\* Line 30: return self._metadata if self._metadata else None.
GetterResult(m) == IF Truthy(m) THEN "returns Metadata" ELSE "returns None"

\* The metadata getter (lines 28-30).
get_metadata ==
  /\ pc = "idle"
  /\ UNCHANGED <<workflowVars, status, pc, localVars, callVars, observed, raised>>
  /\ lastCall' = Call("metadata.getter", "", GetterResult(metadata))

\* The loop setter (lines 43-45).
set_loop(value) ==
  /\ pc = "idle"
  /\ loop' = value
  /\ lastCall' = Call("loop.setter", "", "ok")
  /\ UNCHANGED <<jobs, metadata, status, pc, localVars, callVars, observed, raised>>

\* run() up to the while loop (lines 80-81): _compute_workflow_metadata
\* (lines 133-151) raises, or sets the metadata through the setter.
run_begin ==
  /\ pc = "idle"
  /\ UNCHANGED <<jobs, loop, status, bi, batch, todo, all_completed, any_errored,
                 errored_jobs, callVars, observed, raised>>
  /\ IF MetadataExists(metadata)
       THEN /\ lastCall' = Call("run", "", "ValueError: metadata already exists")
            /\ UNCHANGED <<metadata, pc, first_run, passNo>>
       ELSE LET computed == ComputeMetadata(jobs)
            IN IF computed.circular
                 THEN /\ lastCall' = Call("run", "", "CircularDependencyError")
                      /\ UNCHANGED <<metadata, pc, first_run, passNo>>
                 ELSE IF ~SetterAccepts(metadata)
                        THEN /\ lastCall' = Call("run", "", "ValueError: cannot be modified")
                             /\ UNCHANGED <<metadata, pc, first_run, passNo>>
                        ELSE /\ metadata' = computed.value
                             /\ first_run' = TRUE
                             /\ passNo' = 0
                             /\ pc' = "while"
                             /\ lastCall' = Call("run", "", "running")

\* The while test (lines 82-83): another pass, or run() returns.
run_while ==
  /\ pc = "while"
  /\ UNCHANGED <<workflowVars, status, todo, all_completed, any_errored,
                 errored_jobs, callVars, raised>>
  /\ IF LoopCondition(first_run, loop)
       THEN /\ passNo < MaxPass
            /\ first_run' = FALSE
            /\ passNo' = passNo + 1
            /\ bi' = 1
            /\ observed' = [j \in Jobs |-> NotObserved]
            /\ pc' = "for"
            /\ UNCHANGED <<batch, lastCall>>
       ELSE /\ pc' = "idle"
            /\ bi' = 0
            /\ batch' = {}
            /\ lastCall' = Call("run", "", "returned")
            /\ UNCHANGED <<first_run, passNo, observed>>

\* The for loop over self.metadata.topological_order (lines 84-86): enter
\* _execute_and_wait on the next batch, or go back to the while test.
run_for ==
  /\ pc = "for"
  /\ UNCHANGED <<workflowVars, status, first_run, bi, passNo, all_completed,
                 any_errored, errored_jobs, callVars, observed, raised, lastCall>>
  /\ IF bi <= Len(metadata.topological_order)
       THEN /\ batch' = JobsOf(metadata.topological_order[bi])
            /\ todo' = JobsOf(metadata.topological_order[bi])
            /\ pc' = "start"
       ELSE /\ pc' = "while"
            /\ UNCHANGED <<batch, todo>>

\* One iteration of the start loop (lines 96-97): job.run(). The iteration
\* order of a set of nodes is not fixed, so any job still to visit is next.
start_job(j) ==
  /\ pc = "start"
  /\ j \in todo
  /\ status' = [status EXCEPT ![j] = StatusAfterRun(status[j])]
  /\ runCalls' = [runCalls EXCEPT ![j] = runCalls[j] + 1]
  /\ IF StartLoopDone(todo, j)
       THEN /\ pc' = "poll"
            /\ todo' = batch
            /\ all_completed' = TRUE
            /\ any_errored' = FALSE
            /\ errored_jobs' = <<>>
       ELSE /\ todo' = todo \ {j}
            /\ UNCHANGED <<pc, all_completed, any_errored, errored_jobs>>
  /\ UNCHANGED <<workflowVars, first_run, bi, batch, passNo, statusCalls, killCalls,
                 observed, raised, lastCall>>

\* One iteration of the poll loop (lines 104-111): job.status(); after the
\* last job of the pass, lines 113-121 decide.
poll_job(j) ==
  /\ pc = "poll"
  /\ j \in todo
  /\ LET st == status[j]
         completed == all_completed /\ ~NotFinished(st)
         errored == any_errored \/ (NotFinished(st) /\ IsErrored(st))
         names == IF NotFinished(st) /\ IsErrored(st)
                    THEN Append(errored_jobs, NameOf(j)) ELSE errored_jobs
     IN /\ statusCalls' = statusCalls \cup {j}
        /\ IF todo # {j}
             THEN /\ todo' = todo \ {j}
                  /\ all_completed' = completed
                  /\ any_errored' = errored
                  /\ errored_jobs' = names
                  /\ observed' = [observed EXCEPT ![j] = st]
                  /\ UNCHANGED <<pc, bi>>
             ELSE CASE PassOutcome(completed, errored) = "return" ->
                         /\ pc' = "for"
                         /\ bi' = bi + 1
                         /\ todo' = {}
                         /\ observed' = [observed EXCEPT ![j] = st]
                         /\ all_completed' = TRUE
                         /\ any_errored' = FALSE
                         /\ errored_jobs' = <<>>
                    [] PassOutcome(completed, errored) = "raise" ->
                         /\ pc' = "kill"
                         /\ todo' = KillTargets(batch, status)
                         /\ all_completed' = completed
                         /\ any_errored' = errored
                         /\ errored_jobs' = names
                         /\ observed' = [observed EXCEPT ![j] = st]
                         /\ UNCHANGED bi
                    [] OTHER ->
                         /\ pc' = "poll"
                         /\ todo' = batch
                         /\ all_completed' = TRUE
                         /\ any_errored' = FALSE
                         /\ errored_jobs' = <<>>
                         /\ observed' = [k \in Jobs |-> IF k \in batch THEN NotObserved
                                                                   ELSE observed[k]]
                         /\ UNCHANGED bi
  /\ UNCHANGED <<workflowVars, status, first_run, batch, passNo, runCalls, killCalls,
                 raised, lastCall>>

\* One iteration of _kill_jobs (lines 130-131): job.kill(); after the last
\* one, the ValueError of lines 118-119 leaves run().
kill_job(j) ==
  /\ pc = "kill"
  /\ j \in todo
  /\ killCalls' = killCalls \cup {j}
  /\ IF todo = {j}
       THEN /\ pc' = "idle"
            /\ todo' = {}
            /\ raised' = [raised |-> TRUE, index |-> bi, batch |-> batch, names |-> errored_jobs]
            /\ lastCall' = Call("run", "", "ValueError: jobs errored out")
            /\ bi' = 0
            /\ batch' = {}
            /\ all_completed' = TRUE
            /\ any_errored' = FALSE
            /\ errored_jobs' = <<>>
       ELSE /\ todo' = todo \ {j}
            /\ UNCHANGED <<pc, raised, lastCall, bi, batch, all_completed, any_errored,
                           errored_jobs>>
  /\ UNCHANGED <<workflowVars, status, first_run, passNo, runCalls, statusCalls, observed>>

\* A job's own progress, out of band: running -> finished, failed or
\* undetermined; no transition leaves a terminal status.
job_ends(j, st) ==
  /\ status[j] = RUNNING
  /\ st \in Terminal
  /\ status' = [status EXCEPT ![j] = st]
  /\ UNCHANGED <<workflowVars, pc, localVars, callVars, observed, raised, lastCall>>

Next ==
  \/ \E job \in Objects, deps \in DepArgs : add_job(job, deps)
  \/ \E value \in {None, UserMetadata} : set_metadata(value)
  \/ get_metadata
  \/ \E value \in BOOLEAN : set_loop(value)
  \/ run_begin
  \/ run_while
  \/ run_for
  \/ \E j \in Jobs : start_job(j)
  \/ \E j \in Jobs : poll_job(j)
  \/ \E j \in Jobs : kill_job(j)
  \/ \E j \in Jobs, st \in Terminal : job_ends(j, st)

Spec == Init /\ [][Next]_vars

\* ----------------------------------- metadata computation on any registry --
\* Every registry add_job can build over the Job objects: each name is absent
\* or holds a job of that name with a list of dependencies.
Registries ==
  UNION {[ns -> {[job |-> j, dependencies |-> l] : j \in Jobs, l \in ListsOver(Jobs)}] :
           ns \in SUBSET Names}

AllRegistries == {reg \in Registries : \A n \in DOMAIN reg : NameOf(reg[n].job) = n}

MetaInit == \E reg \in AllRegistries : InitWith(reg, FALSE)

MetaNext == run_begin \/ get_metadata

MetaSpec == MetaInit /\ [][MetaNext]_vars

\* -------------------------------------------- one run() on any registry ----
\* The registries add_job can build within the bound on dependencies.
RunRegistries == {reg \in AllRegistries : Edges(reg) <= MaxEdges}

RunInit == \E reg \in RunRegistries, lp \in BOOLEAN : InitWith(reg, lp)

\* The steps of the control thread inside run().
Coordinator ==
  \/ run_while
  \/ run_for
  \/ \E j \in Jobs : start_job(j)
  \/ \E j \in Jobs : poll_job(j)
  \/ \E j \in Jobs : kill_job(j)

RunNext ==
  \/ run_begin
  \/ Coordinator
  \/ \E j \in Jobs, st \in Terminal : job_ends(j, st)

RunSpec == RunInit /\ [][RunNext]_vars

\* The control thread keeps running while it has a step to take (the sleep of
\* line 121 ends), and a job that is running reaches a terminal status.
FairSpec ==
  /\ RunSpec
  /\ WF_vars(Coordinator)
  /\ \A j \in Jobs : WF_vars(\E st \in Terminal : job_ends(j, st))

\* ============================================================ claims ======
\* The dependency edges a registry declares, as (dependent, dependency) nodes.
DeclaredEdges(reg) ==
  UNION {{<<Node(n, reg[n].job), Node(NameOf(d), d)>> : d \in Range(reg[n].dependencies)} :
           n \in DOMAIN reg}

\* Every registered job and every job referenced as a dependency.
DeclaredNodes(reg) ==
  {Node(n, reg[n].job) : n \in DOMAIN reg} \cup {e[2] : e \in DeclaredEdges(reg)}

RECURSIVE ReachFrom(_, _, _)
ReachFrom(E, frontier, seen) ==
  LET next == {e[2] : e \in {x \in E : x[1] \in frontier}} \ seen
  IN IF next = {} THEN seen ELSE ReachFrom(E, next, seen \cup next)

\* Some node reaches itself along declared edges (a self-dependency included).
Cyclic(reg) ==
  \E nd \in DeclaredNodes(reg) : nd \in ReachFrom(DeclaredEdges(reg), {nd}, {})

\* The indices of the batches of the computed sequence that hold a node.
BatchesOf(nd) ==
  {i \in DOMAIN metadata.topological_order : nd \in metadata.topological_order[i]}

Failure == {FAILED, UNDETERMINED}

NoJobCalled ==
  (\A j \in Jobs : runCalls[j] = 0) /\ statusCalls = {} /\ killCalls = {}

\* C1: whenever job.run() is invoked on a job, the job belongs to the current
\* batch and every job of every earlier batch of the sequence was observed
\* FINISHED by a poll of the current pass.
C1_NextBatchAfterAllFinished ==
  [][\A j \in Jobs :
       runCalls'[j] # runCalls[j] =>
         /\ j \in JobsOf(metadata.topological_order[bi])
         /\ \A k \in 1..(bi - 1) :
              \A nd \in metadata.topological_order[k] : observed[nd.job] = FINISHED]_vars

C1_Witness ==
  /\ Truthy(metadata)
  /\ pc = "poll"
  /\ bi = 2
  /\ Cardinality(metadata.topological_order[1]) = 2
  /\ \E j \in batch : runCalls[j] = 1

\* C2: when metadata was computed from an acyclic registry, both ends of every
\* declared dependency edge are in the batch sequence and the dependency's
\* batch index is strictly less than the dependent's.
C2_DependencyInEarlierBatch ==
  (Truthy(metadata) /\ ~Cyclic(jobs)) =>
    \A e \in DeclaredEdges(jobs) :
      /\ BatchesOf(e[1]) # {}
      /\ BatchesOf(e[2]) # {}
      /\ \A i \in BatchesOf(e[2]), k \in BatchesOf(e[1]) : i < k

C2_Witness ==
  /\ Truthy(metadata)
  /\ ~Cyclic(jobs)
  /\ Cardinality(DeclaredEdges(jobs)) >= 4
  /\ Len(metadata.topological_order) = 3

\* C3 (as claimed): when metadata was computed from an acyclic registry, every
\* registered job and every dependency is in exactly one batch, and the union
\* of the batches is that node set.
C3_EveryNodeInExactlyOneBatch ==
  (Truthy(metadata) /\ ~Cyclic(jobs)) =>
    /\ \A nd \in DeclaredNodes(jobs) : Cardinality(BatchesOf(nd)) = 1
    /\ UNION Range(metadata.topological_order) = DeclaredNodes(jobs)

\* C5 (as claimed): run() on a registry whose dependency graph has a cycle,
\* a self-dependency included, ends with the cyclic-dependency error and
\* leaves the metadata unset.
C5_CycleIsRejected ==
  (lastCall.op = "run" /\ Cyclic(jobs)) =>
    (lastCall.result = "CircularDependencyError" /\ metadata = None)

\* C4: a poll pass that observed a job FAILED or UNDETERMINED goes on to kill
\* every job of the batch; the kill loop ends only in the batch failure, with
\* kill() called on every job of the batch; and from the kill loop on no job
\* is ever started again, whatever the loop flag.
C4_FailFast ==
  /\ [][(/\ pc = "poll"
         /\ Cardinality(todo) = 1
         /\ status' = status
         /\ \E k \in batch : (IF k \in todo THEN status[k] ELSE observed[k]) \in Failure)
          => (pc' = "kill" /\ todo' = batch)]_vars
  /\ [][pc = "kill" =>
          /\ runCalls' = runCalls
          /\ \/ pc' = "kill"
             \/ pc' = "idle" /\ raised'.raised /\ batch \subseteq killCalls']_vars
  /\ [][raised.raised => (raised' = raised /\ runCalls' = runCalls)]_vars
  /\ [](raised.raised => raised.batch \subseteq killCalls)

C4_Witness ==
  /\ raised.raised
  /\ loop
  /\ raised.index < Len(metadata.topological_order)
  /\ \E j \in raised.batch : observed[j] = FINISHED /\ j \in killCalls
  /\ \E j \in raised.batch : observed[j] \in Failure

StructuralErrors ==
  {"TypeError: job", "TypeError: dependencies", "ValueError: already exists",
   "CircularDependencyError"}

\* C6: a call that ends in a structural error (type violation, duplicate name,
\* cycle) invokes nothing on any job; a cyclic-dependency error is only ever
\* raised by a workflow that has called no job at all, and so is any
\* structural error raised before a run() has entered its first pass.
C6_StructuralErrorsCallNoJob ==
  /\ [][(lastCall' # lastCall /\ lastCall'.result \in StructuralErrors)
          => UNCHANGED <<runCalls, statusCalls, killCalls, status>>]_vars
  /\ [](lastCall.result = "CircularDependencyError" => NoJobCalled)
  /\ []((lastCall.result \in StructuralErrors /\ passNo = 0) => NoJobCalled)

C6_Witness ==
  /\ lastCall.result = "CircularDependencyError"
  /\ Cardinality(DOMAIN jobs) = 2
  /\ NoJobCalled

\* C7: an add_job call for a name that is already registered ends in an error
\* and leaves the registry as it was; no step ever removes or alters an entry.
C7_DuplicateLeavesRegistry ==
  /\ [][(/\ lastCall'.op = "add_job"
         /\ lastCall'.name \in DOMAIN jobs
         /\ (lastCall' # lastCall \/ jobs' # jobs))
          => /\ lastCall'.result \in {"ValueError: already exists", "TypeError: dependencies"}
             /\ jobs' = jobs]_vars
  /\ [][\A n \in DOMAIN jobs : n \in DOMAIN jobs' /\ jobs'[n] = jobs[n]]_vars

C7_Witness ==
  /\ lastCall.result = "ValueError: already exists"
  /\ jobs[lastCall.name].dependencies # <<>>
  /\ Cardinality(DOMAIN jobs) = 2

\* C8: once the metadata is set it never changes, and a run() or a metadata
\* assignment made after that ends in an error without starting a job.
C8_MetadataWriteOnce ==
  /\ [][Truthy(metadata) => metadata' = metadata]_vars
  /\ [][(/\ Truthy(metadata)
         /\ pc = "idle"
         /\ lastCall' # lastCall
         /\ lastCall'.op \in {"run", "metadata.setter"})
          => /\ lastCall'.result \in {"ValueError: metadata already exists",
                                       "ValueError: cannot be modified"}
             /\ runCalls' = runCalls
             /\ pc' = "idle"]_vars

C8_Witness ==
  /\ lastCall = Call("run", "", "ValueError: metadata already exists")
  /\ Len(metadata.topological_order) = 2
  /\ \E j \in Jobs : runCalls[j] = 1

\* The jobs of the computed batch sequence.
SequenceJobs ==
  UNION {JobsOf(metadata.topological_order[k]) : k \in DOMAIN metadata.topological_order}

\* C9: run() returns only with the loop flag off; with the flag on, the while
\* test after a pass begins the next pass at the first batch; and every pass
\* starts each job of the sequence exactly once, batch by batch in the order
\* of the sequence.
C9_LoopRepeatsSequence ==
  /\ [][(pc = "while" /\ pc' = "idle") => ~loop]_vars
  /\ [][(pc = "while" /\ loop /\ pc' # "while")
          => (pc' = "for" /\ bi' = 1 /\ passNo' = passNo + 1 /\ metadata' = metadata)]_vars
  /\ [](pc = "while" => \A j \in SequenceJobs : runCalls[j] = passNo)
  /\ [](pc \in {"for", "start", "poll", "kill"} =>
          \A k \in DOMAIN metadata.topological_order :
            \A j \in JobsOf(metadata.topological_order[k]) :
              runCalls[j] = IF k < bi \/ (k = bi /\ pc \in {"poll", "kill"})
                                  \/ (k = bi /\ pc = "start" /\ j \notin todo)
                              THEN passNo ELSE passNo - 1)

C9_Witness ==
  /\ loop
  /\ passNo = 2
  /\ pc = "poll"
  /\ bi = 2

NameCount(names, n) == Cardinality({i \in DOMAIN names : names[i] = n})

\* The list names exactly the jobs of S, each once.
NamesExactly(names, S) ==
  \A n \in Names : NameCount(names, n) = Cardinality({j \in S : NameOf(j) = n})

\* C10 (as claimed): when the batch failure is raised, it names exactly the
\* jobs of the batch that are in status FAILED or UNDETERMINED.
C10_NamesJobsInFailureStatus ==
  [][(raised'.raised /\ ~raised.raised)
      => NamesExactly(raised'.names, {j \in raised'.batch : status'[j] \in Failure})]_vars

\* C10 (amended): the batch failure names exactly the jobs of the batch whose
\* status() call in the last poll pass returned FAILED or UNDETERMINED, and
\* each of them is in such a status from then on.
C10_NamesJobsObservedInFailure ==
  raised.raised =>
    /\ NamesExactly(raised.names, {j \in raised.batch : observed[j] \in Failure})
    /\ \A j \in raised.batch : observed[j] \in Failure => status[j] \in Failure

C10_Witness ==
  /\ raised.raised
  /\ Len(raised.names) = 1
  /\ \E j \in raised.batch : observed[j] = RUNNING
  /\ \E j \in raised.batch : observed[j] = UNDETERMINED

\* The job names of each batch of a batch sequence.
BatchNames(order) == [i \in DOMAIN order |-> {nd.name : nd \in order[i]}]

\* C is registered with the one dependency B and B with the one dependency A;
\* A is not registered, or is registered without dependencies.
ChainRegistry(reg) ==
  /\ {"B", "C"} \subseteq DOMAIN reg
  /\ Len(reg["C"].dependencies) = 1
  /\ NameOf(reg["C"].dependencies[1]) = "B"
  /\ Len(reg["B"].dependencies) = 1
  /\ NameOf(reg["B"].dependencies[1]) = "A"
  /\ "A" \in DOMAIN reg => reg["A"].dependencies = <<>>

\* run() has just computed the metadata from the registry as it stands.
JustComputed == pc = "while" /\ passNo = 0

\* C11: whatever the order of the add_job calls that built the chain
\* C -> B -> A, the first run() on it raises no cycle error and the batch
\* sequence it computes is three singleton batches that hold A, B and C in
\* that order.
C11_ChainGivesThreeSingletons ==
  (/\ lastCall.op = "run"
   /\ lastCall.result \in {"running", "CircularDependencyError"}
   /\ ChainRegistry(jobs)) =>
    /\ Truthy(metadata)
    /\ BatchNames(metadata.topological_order) = <<{"A"}, {"B"}, {"C"}>>
    /\ \A i \in DOMAIN metadata.topological_order :
         Cardinality(metadata.topological_order[i]) = 1

C11_Witness ==
  /\ JustComputed
  /\ ChainRegistry(jobs)
  /\ "A" \notin DOMAIN jobs
  /\ Len(metadata.topological_order) = 3

\* C12 (as claimed): when no registered job has a dependency, the computed
\* batch sequence is one batch that holds exactly the registered jobs.
C12_IndependentJobsOneBatch ==
  (/\ Truthy(metadata)
   /\ DOMAIN jobs # {}
   /\ \A n \in DOMAIN jobs : jobs[n].dependencies = <<>>)
    => metadata.topological_order = <<{Node(n, jobs[n].job) : n \in DOMAIN jobs}>>

\* The nodes that occur in a graph, as keys or as dependencies.
GraphNodes(g) == (DOMAIN g) \cup UNION {g[k] : k \in DOMAIN g}

\* The nodes that occur in a batch sequence.
SequenceNodes(order) == UNION Range(order)

\* C13 (as claimed): the computed graph and batch sequence hold at most one
\* node per job name, and no job name occurs in two batches or twice in one.
C13_OneNodePerName ==
  Truthy(metadata) =>
    /\ \A x, y \in GraphNodes(metadata.graph) \cup SequenceNodes(metadata.topological_order) :
         x.name = y.name => x = y
    /\ \A n \in Names :
         Cardinality({<<i, nd>> \in (DOMAIN metadata.topological_order)
                                      \X SequenceNodes(metadata.topological_order) :
                        nd \in metadata.topological_order[i] /\ nd.name = n}) <= 1

\* C14 (as claimed): a read of the metadata property made while no metadata
\* has been computed ends in an error and yields no value.
C14_ReadBeforeRunFails ==
  (lastCall.op = "metadata.getter" /\ metadata = None) =>
    lastCall.result \notin {"returns None", "returns Metadata"}

\* C14 (amended): a read of the metadata property made while no metadata has
\* been computed returns None, and the read changes nothing of the workflow.
C14_ReadBeforeRunYieldsNone ==
  /\ [](lastCall.op = "metadata.getter" /\ metadata = None
          => lastCall.result = "returns None")
  /\ [][(lastCall'.op = "metadata.getter" /\ lastCall' # lastCall)
          => UNCHANGED <<jobs, metadata, loop, status, pc, runCalls>>]_vars

C14_Witness ==
  /\ lastCall = Call("metadata.getter", "", "returns None")
  /\ metadata = None
  /\ DOMAIN jobs # {}

\* C15: job.status() is called only in the poll loop, and while the poll loop
\* runs every job of the batch has been started in this pass; while the start
\* loop runs no job of the batch has been polled, the jobs it has visited are
\* started and the others are not; and a step starts at most one job, once.
C15_AllStartedBeforeAnyStatus ==
  /\ [][(\E j \in Jobs : observed'[j] \notin {NotObserved, observed[j]})
          => (pc = "poll" /\ \A k \in batch : runCalls[k] = passNo)]_vars
  /\ [](pc = "poll" => \A k \in batch : runCalls[k] = passNo)
  /\ [](pc = "start" =>
          \A k \in batch :
            /\ observed[k] = NotObserved
            /\ runCalls[k] = IF k \in todo THEN passNo - 1 ELSE passNo)
  /\ [][/\ Cardinality({j \in Jobs : runCalls'[j] # runCalls[j]}) <= 1
        /\ \A j \in Jobs : runCalls'[j] \in {runCalls[j], runCalls[j] + 1}]_vars

C15_Witness ==
  /\ pc = "poll"
  /\ Cardinality(batch) = 2
  /\ \A k \in batch : runCalls[k] = 1
  /\ \E k \in batch : observed[k] = RUNNING
  /\ \E k \in batch : observed[k] = NotObserved

\* The jobs of the batches that come before index i in the batch sequence.
EarlierJobs(i) ==
  UNION {JobsOf(metadata.topological_order[k]) :
           k \in {x \in DOMAIN metadata.topological_order : x < i}}

\* C16: job.kill() is called on a job only in the kill loop of the job's own
\* current batch, after a poll pass of that batch observed one of its jobs
\* FAILED or UNDETERMINED; a batch that is left with every job observed
\* FINISHED has no killed job, then and ever after; and only jobs of the batch
\* that failed are ever killed.
C16_KillOnlyOnFailFast ==
  /\ [][\A j \in killCalls' \ killCalls :
          /\ pc = "kill"
          /\ j \in batch
          /\ \E k \in batch : observed[k] \in Failure]_vars
  /\ [][(pc = "poll" /\ pc' = "for") => batch \cap killCalls' = {}]_vars
  /\ [](pc \in {"for", "start", "poll"} => killCalls = {})
  /\ [](pc = "kill" => killCalls \subseteq batch /\ killCalls \cap EarlierJobs(bi) = {})
  /\ [](raised.raised =>
          killCalls \subseteq raised.batch /\ killCalls \cap EarlierJobs(raised.index) = {})
  /\ [](killCalls # {} => (pc = "kill" \/ raised.raised))

C16_Witness ==
  /\ raised.raised
  /\ raised.index = 2
  /\ killCalls = raised.batch
  /\ Cardinality(EarlierJobs(2)) = 2
  /\ \A j \in EarlierJobs(2) : runCalls[j] = 1 /\ j \notin killCalls

\* run() has ended: it returned, or the batch failure left it.
RunEnded ==
  /\ pc = "idle"
  /\ \/ lastCall.result = "returned" /\ ~raised.raised
     \/ lastCall.result = "ValueError: jobs errored out" /\ raised.raised

\* C17: with the loop flag off, a run() that has computed its metadata
\* eventually ends, by returning or with the batch failure; it returns only
\* after the last batch, with every job of the sequence finished, and it ends
\* with the batch failure only after a job was observed FAILED or UNDETERMINED.
C17_RunTerminates ==
  /\ (pc = "while" /\ ~loop) ~> RunEnded
  /\ []((pc = "idle" /\ lastCall.result = "returned") =>
          \A j \in SequenceJobs : status[j] = FINISHED /\ runCalls[j] = 1)
  /\ []((raised.raised /\ ~loop) => \E j \in raised.batch : observed[j] \in Failure)

C17_Witness ==
  /\ ~loop
  /\ pc = "idle"
  /\ lastCall.result = "returned"
  /\ Len(metadata.topological_order) = 2
  /\ \A j \in SequenceJobs : status[j] = FINISHED

\* C18 (as claimed): once the metadata is computed, its nodes component holds
\* one node for every registered job and every declared dependency, which are
\* the nodes of the graph and of the batch sequence.
C18_NodesAreTheDeclaredNodes ==
  JustComputed =>
    /\ Range(metadata.nodes) = DeclaredNodes(jobs)
    /\ Len(metadata.nodes) = Cardinality(DeclaredNodes(jobs))
    /\ Range(metadata.nodes) =
         GraphNodes(metadata.graph) \cup SequenceNodes(metadata.topological_order)

====
